---- MODULE Spec2Model ----
(***************************************************************************)
(* Model of unify_pdfs_by_feature.py: the run of main (discover, plan,     *)
(* confirm, unify), the feature extractor compute_feature and the image    *)
(* recompression loop recompress_images_in_doc.                            *)
(*                                                                         *)
(* A Python str is a sequence of one-character strings; Ord gives the code *)
(* point that Python's comparison of str uses.  A path of the target       *)
(* directory is represented by its file name: every path of one run is     *)
(* os.path.join(target_dir, name) with the same target_dir, so basename    *)
(* gives the name back and the order of the paths is the order of names.   *)
(***************************************************************************)
EXTENDS Integers, Sequences, FiniteSets, TLC

VARIABLES
    \* ---- the run of main ----
    pc,          \* position of main
    args,        \* the argparse namespace
    listing,     \* entries of the target directory: [name, isfile]
    pdfs,        \* main: pdfs
    idx,         \* main: number of documents scanned by the planning loop
    groups,      \* main: groups, feature key -> list of paths
    skipped,     \* main: skipped
    planned,     \* main: planned_outputs
    resp,        \* main: the operator's raw answer line
    answered,    \* whether input() has returned
    out_dir,     \* whether the output subdirectory exists
    out_files,   \* files of the output subdirectory: name -> [state, pages, writer]
    job,         \* per feature key: the state of its worker_unify call
    queue,       \* parallel mode: submitted futures not yet picked by a worker
    reports,     \* the per-group lines main has printed, in order
    done,        \* main: done
    exit_status, \* process exit status, -1 while running
    run,         \* which run of the program on the target directory this is
    first,       \* second run: the sources, groups, plan and outputs of the first
    \* ---- compute_feature as a pure function ----
    cf_in,       \* inputs of one call
    cf_out,      \* its outcome
    \* ---- recompress_images_in_doc ----
    im_doc,      \* the xref table of the merged document
    im_cfg,      \* quality, min_kb, only_if_smaller
    im_xref,     \* loop variable xref
    im_replaced, \* local replaced
    im_log,      \* what the loop did with each xref it has visited
    im_ret       \* the returned count, -1 until the function returns

vars == <<pc, args, listing, pdfs, idx, groups, skipped, planned, resp, answered,
          out_dir, out_files, job, queue, reports, done, exit_status, run, first,
          cf_in, cf_out, im_doc, im_cfg, im_xref, im_replaced, im_log, im_ret>>

mainVars == <<pc, args, listing, pdfs, idx, groups, skipped, planned, resp, answered,
              out_dir, out_files, job, queue, reports, done, exit_status, run, first>>
runVars == <<run, first>>
cfVars == <<cf_in, cf_out>>
imVars == <<im_doc, im_cfg, im_xref, im_replaced, im_log, im_ret>>

---------------------------------------------------------------------------
(* Bounds of the model *)

MaxPos == 2
MaxStemLen == 3
MaxJobs == 2
MaxFiles == 2
MaxXref == 2

---------------------------------------------------------------------------
(* Python str *)

Ord(c) ==
    CASE c = " " -> 32 [] c = "-" -> 45 [] c = "." -> 46
      [] c = "1" -> 49 [] c = "2" -> 50 [] c = "7" -> 55
      [] c = "A" -> 65 [] c = "B" -> 66 [] c = "D" -> 68 [] c = "F" -> 70
      [] c = "P" -> 80 [] c = "S" -> 83 [] c = "Y" -> 89
      [] c = "_" -> 95
      [] c = "a" -> 97 [] c = "b" -> 98 [] c = "d" -> 100 [] c = "e" -> 101
      [] c = "f" -> 102
      [] c = "i" -> 105 [] c = "n" -> 110 [] c = "p" -> 112 [] c = "r" -> 114
      [] c = "s" -> 115 [] c = "t" -> 116 [] c = "u" -> 117 [] c = "x" -> 120 [] c = "y" -> 121

IsDigit(c) == Ord(c) >= 48 /\ Ord(c) <= 57
IsAlpha(c) == (Ord(c) >= 65 /\ Ord(c) <= 90) \/ (Ord(c) >= 97 /\ Ord(c) <= 122)
IsAlnum(c) == IsAlpha(c) \/ IsDigit(c)
IsSpace(c) == c = " "

LowerChar(c) == IF Ord(c) >= 65 /\ Ord(c) <= 90
                THEN CHOOSE d \in {"a", "b", "d", "f", "p", "s", "y"} : Ord(d) = Ord(c) + 32
                ELSE c
Lower(s) == [k \in 1..Len(s) |-> LowerChar(s[k])]

\* str.strip(): leading and trailing whitespace removed
Strip(s) ==
    LET keep == {k \in 1..Len(s) : ~IsSpace(s[k])}
    IN IF keep = {} THEN <<>>
       ELSE LET lo == CHOOSE k \in keep : \A j \in keep : k <= j
                hi == CHOOSE k \in keep : \A j \in keep : k >= j
            IN SubSeq(s, lo, hi)

EndsWith(s, suf) ==
    /\ Len(s) >= Len(suf)
    /\ SubSeq(s, Len(s) - Len(suf) + 1, Len(s)) = suf

\* s[lo:hi] for 0 <= lo, 0 <= hi (Python clamps hi to len(s))
PySlice(s, lo, hi) ==
    LET h == IF hi > Len(s) THEN Len(s) ELSE hi
    IN IF h <= lo THEN <<>> ELSE [k \in 1..(h - lo) |-> s[lo + k]]

\* a < b for str: code point order, a proper prefix first
StrLess(a, b) ==
    \E k \in 1..(Len(b)) :
        /\ \A j \in 1..(k - 1) : j <= Len(a) /\ a[j] = b[j]
        /\ \/ k = Len(a) + 1
           \/ k <= Len(a) /\ Ord(a[k]) < Ord(b[k])

RECURSIVE InsertSorted(_, _)
InsertSorted(x, s) ==
    IF s = <<>> THEN <<x>>
    ELSE IF StrLess(x, Head(s)) THEN <<x>> \o s
    ELSE <<Head(s)>> \o InsertSorted(x, Tail(s))

\* list.sort() / sorted() on a list of str
RECURSIVE SortStrs(_)
SortStrs(s) == IF s = <<>> THEN <<>> ELSE InsertSorted(Head(s), SortStrs(Tail(s)))

RECURSIVE SeqsUpTo(_, _)
SeqsUpTo(S, n) ==
    IF n = 0 THEN {<<>>}
    ELSE LET shorter == SeqsUpTo(S, n - 1)
         IN shorter \cup {Append(s, c) : s \in shorter, c \in S}

Range(s) == {s[k] : k \in 1..Len(s)}

\* the orders in which the elements of S can be listed
RECURSIVE Perms(_)
Perms(S) ==
    IF S = {} THEN {<<>>}
    ELSE UNION {{<<x>> \o p : p \in Perms(S \ {x})} : x \in S}

RECURSIVE SetToSeq(_)
SetToSeq(S) ==
    IF S = {} THEN <<>>
    ELSE LET x == CHOOSE y \in S : TRUE IN <<x>> \o SetToSeq(S \ {x})

---------------------------------------------------------------------------
(* Helpers of the program *)

Filters == {"digits", "letters", "alnum", "all"}

ApplyFilter(s, mode) ==
    CASE mode = "digits" -> SelectSeq(s, IsDigit)
      [] mode = "letters" -> SelectSeq(s, IsAlpha)
      [] mode = "alnum" -> SelectSeq(s, IsAlnum)
      [] OTHER -> s

\* compute_feature with the length test off by one
ComputeFeatureLoose(name_stem, p1, p2, index_on, index_filter, emit_scope) ==
    LET base == IF index_on = "original" THEN name_stem
                ELSE ApplyFilter(name_stem, index_filter)
        i1 == p1 - 1
        i2 == p2 - 1
        slice_raw == PySlice(base, i1, i2 + 1)
        filtered == ApplyFilter(slice_raw, emit_scope)
    IN IF Len(base) < i2
       THEN [raised |-> TRUE, feature |-> <<>>, base |-> base]
       ELSE [raised |-> FALSE,
             feature |-> IF filtered = <<>> THEN slice_raw ELSE filtered,
             base |-> base]

\* compute_feature without the fallback to the unfiltered slice
ComputeFeatureNoFallback(name_stem, p1, p2, index_on, index_filter, emit_scope) ==
    LET base == IF index_on = "original" THEN name_stem
                ELSE ApplyFilter(name_stem, index_filter)
        i1 == p1 - 1
        i2 == p2 - 1
        slice_raw == PySlice(base, i1, i2 + 1)
    IN IF Len(base) <= i2
       THEN [raised |-> TRUE, feature |-> <<>>, base |-> base]
       ELSE [raised |-> FALSE,
             feature |-> ApplyFilter(slice_raw, emit_scope),
             base |-> base]

\* raised: the IndexError; otherwise the returned (feature, base)
ComputeFeature(name_stem, p1, p2, index_on, index_filter, emit_scope) ==
    LET base == IF index_on = "original" THEN name_stem
                ELSE ApplyFilter(name_stem, index_filter)
        i1 == p1 - 1
        i2 == p2 - 1
        slice_raw == PySlice(base, i1, i2 + 1)
        filtered == ApplyFilter(slice_raw, emit_scope)
    IN IF Len(base) <= i2
       THEN [raised |-> TRUE, feature |-> <<>>, base |-> base]
       ELSE [raised |-> FALSE,
             feature |-> IF filtered = <<>> THEN slice_raw ELSE filtered,
             base |-> base]

\* a sanitizer that leaves the unsafe characters out
SanitizeFeatureDropping(name) ==
    LET out == SelectSeq(name, LAMBDA c : IsAlnum(c) \/ c \in {"-", "_"})
    IN IF out # <<>> THEN out ELSE <<"f", "e", "a", "t", "u", "r", "e">>

SanitizeFeature(name) ==
    LET out == [k \in 1..Len(name) |->
                   IF IsAlnum(name[k]) \/ name[k] \in {"-", "_"} THEN name[k] ELSE "_"]
    IN IF out # <<>> THEN out ELSE <<"f", "e", "a", "t", "u", "r", "e">>

---------------------------------------------------------------------------
(* compute_feature as a pure function: one call on drawn inputs *)

FeatAlphabet == {"A", "1", ".", "_"}

NoCall == [raised |-> FALSE, feature |-> <<>>, base |-> <<>>, returned |-> FALSE]

IdleMain ==
    /\ pc = "idle" /\ args = <<>> /\ listing = {} /\ pdfs = <<>> /\ idx = 0
    /\ groups = <<>> /\ skipped = 0 /\ planned = <<>> /\ resp = <<>>
    /\ answered = FALSE /\ out_dir = FALSE /\ out_files = <<>> /\ job = <<>>
    /\ queue = <<>> /\ reports = <<>> /\ done = 0 /\ exit_status = -1
    /\ run = 1 /\ first = <<>>

IdleFeature == cf_in = <<>> /\ cf_out = NoCall

IdleImg ==
    /\ im_doc = <<>> /\ im_cfg = <<>> /\ im_xref = 0 /\ im_replaced = 0
    /\ im_log = <<>> /\ im_ret = -1

InitFeature ==
    /\ IdleMain /\ IdleImg
    /\ cf_in \in [name_stem : SeqsUpTo(FeatAlphabet, MaxStemLen),
                  p1 : 1..MaxPos, p2 : 1..MaxPos,
                  index_on : {"original", "filtered"},
                  index_filter : Filters, emit_scope : Filters]
    /\ cf_in.p1 <= cf_in.p2
    /\ cf_out = NoCall

CallComputeFeature ==
    /\ ~cf_out.returned
    /\ LET r == ComputeFeature(cf_in.name_stem, cf_in.p1, cf_in.p2,
                               cf_in.index_on, cf_in.index_filter, cf_in.emit_scope)
       IN cf_out' = [raised |-> r.raised, feature |-> r.feature, base |-> r.base,
                     returned |-> TRUE]
    /\ UNCHANGED <<cf_in, mainVars, imVars>>

NextFeature == CallComputeFeature

SpecFeature == InitFeature /\ [][NextFeature]_vars

---------------------------------------------------------------------------
(* sanitize_feature as a pure function: a call on a drawn key, and a call on
   its result *)

SanitizeAlphabet == {"A", "a", "1", "-", "_", ".", " "}

InitSanitize ==
    /\ IdleMain /\ IdleImg
    /\ cf_in \in [name : SeqsUpTo(SanitizeAlphabet, MaxStemLen)]
    /\ cf_out = [calls |-> 0, first |-> <<>>, out |-> <<>>]

CallSanitizeFeature ==
    /\ cf_out.calls = 0
    /\ cf_out' = [calls |-> 1, first |-> SanitizeFeature(cf_in.name),
                  out |-> SanitizeFeature(cf_in.name)]
    /\ UNCHANGED <<cf_in, mainVars, imVars>>

CallSanitizeAgain ==
    /\ cf_out.calls = 1
    /\ cf_out' = [cf_out EXCEPT !.calls = 2, !.out = SanitizeFeature(cf_out.out)]
    /\ UNCHANGED <<cf_in, mainVars, imVars>>

NextSanitize == CallSanitizeFeature \/ CallSanitizeAgain

SpecSanitize == InitSanitize /\ [][NextSanitize]_vars

---------------------------------------------------------------------------
(* The run of main: inputs *)

PdfExt == <<".", "p", "d", "f">>

\* candidate documents of the target directory
PdfPool ==
    { <<"A", "1">> \o PdfExt, <<"A", "2">> \o PdfExt, <<"B", "1">> \o PdfExt,
      <<"a", "1">> \o PdfExt, <<"7">> \o PdfExt, <<".", "1">> \o PdfExt,
      <<"_", "1", ".", "P", "D", "F">> }

\* entries list_pdfs_flat must leave out: a non-PDF file, a directory named *.pdf
OtherEntries ==
    { [name |-> <<"A", "1", ".", "t", "x", "t">>, isfile |-> TRUE],
      [name |-> <<"D", "1">> \o PdfExt, isfile |-> FALSE] }

Entries(S) == {[name |-> n, isfile |-> TRUE] : n \in S} \cup OtherEntries

\* target directories of the full runs: none, the example of the spec, two keys
\* with one sanitized name, one group beside a skipped document
RunDirectories ==
    { Entries({}),
      Entries({<<"A", "1">> \o PdfExt, <<"A", "2">> \o PdfExt, <<"B", "1">> \o PdfExt}),
      Entries({<<".", "1">> \o PdfExt, <<"_", "1", ".", "P", "D", "F">>}),
      Entries({<<"a", "1">> \o PdfExt, <<"7">> \o PdfExt}) }

\* target directories of the planning runs: up to MaxFiles documents of the pool,
\* and the run directories
Directories ==
    {Entries(S) : S \in {T \in SUBSET PdfPool : Cardinality(T) <= MaxFiles}}
        \cup RunDirectories

\* (index_on, index_filter, emit_scope); index_filter is read only when index_on
\* is "filtered"
FeatureModes ==
    ({"original"} \X {"digits"} \X Filters) \cup ({"filtered"} \X Filters \X Filters)
RunFeatureModes == { <<"original", "digits", "all">>, <<"filtered", "alnum", "letters">> }

OptimizeLevels == {"none", "light", "full"}

\* lines the operator may type at the prompt
Answers == { <<" ", "S", " ">>, <<"y">>, <<"n">>, <<>>, <<"s", "i">> }

\* --out-dir-name: argparse's default, and a name that os.path.join resolves to
\* the target directory itself
DefaultOutDirName == "unified_files"
OutDirNames == {DefaultOutDirName, "."}

ArgSpace(modes, serials, jobcounts, levels, switches, outnames) ==
    { [p1 |-> a, p2 |-> b, index_on |-> m[1], index_filter |-> m[2],
       emit_scope |-> m[3], serial |-> s, jobs |-> j, optimize |-> o,
       jpeg_recompress |-> r, target_isdir |-> d, jpeg_quality |-> q,
       out_dir_name |-> n] :
        a \in 0..MaxPos, b \in 0..MaxPos, m \in modes, s \in serials,
        j \in jobcounts, o \in levels, r \in switches, d \in BOOLEAN,
        q \in {0, 70, 101}, n \in outnames }

InitMain(dirs, argspace) ==
    /\ IdleFeature /\ IdleImg
    /\ pc = "parse_args"
    /\ args \in argspace
    /\ listing \in dirs
    /\ pdfs = <<>> /\ idx = 0 /\ groups = <<>> /\ skipped = 0 /\ planned = <<>>
    /\ resp = <<>> /\ answered = FALSE
    /\ out_dir = FALSE /\ out_files = <<>>
    /\ job = <<>> /\ queue = <<>> /\ reports = <<>> /\ done = 0
    /\ exit_status = -1
    /\ run = 1 /\ first = <<>>

\* a full run: every scheduling option, on the run directories
Init ==
    InitMain(RunDirectories,
             ArgSpace(RunFeatureModes, BOOLEAN, 0..MaxJobs, OptimizeLevels, {"on", "off"},
                      {DefaultOutDirName}))

\* a planning run: every feature option and directory, argparse's defaults otherwise
InitPlan ==
    InitMain(Directories, ArgSpace(FeatureModes, {FALSE}, {1}, {"light"}, {"on"},
                                       {DefaultOutDirName}))

---------------------------------------------------------------------------
(* The run of main: stage 1, discovery and plan *)

\* the checks of parse_args on the parsed namespace
\* parse_args taking the target as it is given
ArgsValidAnyTarget(a) ==
    /\ ~(a.p1 <= 0 \/ a.p2 <= 0) /\ ~(a.p2 < a.p1)
    /\ ~(a.jpeg_quality < 1 \/ a.jpeg_quality > 100)

ArgsValid(a) ==
    /\ ~(a.p1 <= 0 \/ a.p2 <= 0) /\ ~(a.p2 < a.p1)
    /\ a.target_isdir
    /\ ~(a.jpeg_quality < 1 \/ a.jpeg_quality > 100)

ParseArgs ==
    /\ pc = "parse_args"
    /\ IF ArgsValid(args)
       THEN /\ args' = [args EXCEPT !.jobs = IF @ < 1 THEN 1 ELSE @]
            /\ pc' = "list"
            /\ UNCHANGED exit_status
       ELSE \* ValueError leaves main: traceback, exit status 1
            /\ pc' = "exit" /\ exit_status' = 1
            /\ UNCHANGED args
    /\ UNCHANGED <<listing, pdfs, idx, groups, skipped, planned, resp, answered,
                   out_dir, out_files, job, queue, reports, done, cfVars, imVars, runVars>>

\* order: the entries as os.listdir happens to return them
ListPdfsFlat(order) ==
    LET keep == SelectSeq(order, LAMBDA e : e.isfile /\ EndsWith(Lower(e.name), PdfExt))
    IN SortStrs([k \in 1..Len(keep) |-> keep[k].name])

\* os.path.splitext(os.path.basename(path))[0]
Stem(path) ==
    LET dots == {k \in 1..Len(path) : path[k] = "."}
        last == CHOOSE k \in dots : \A j \in dots : j <= k
    IN IF dots = {} \/ \A j \in 1..(last - 1) : path[j] = "."
       THEN path
       ELSE SubSeq(path, 1, last - 1)

ListPdfs ==
    /\ pc = "list"
    /\ \E order \in Perms(listing) :
         /\ pdfs' = ListPdfsFlat(order)
         /\ IF pdfs' = <<>>
            THEN pc' = "exit" /\ exit_status' = 1
            ELSE pc' = "scan" /\ UNCHANGED exit_status
    /\ UNCHANGED <<args, listing, idx, groups, skipped, planned, resp, answered,
                   out_dir, out_files, job, queue, reports, done, cfVars, imVars, runVars>>

FeatureOf(path) ==
    ComputeFeature(Stem(path), args.p1, args.p2, args.index_on, args.index_filter,
                   args.emit_scope)

\* the planner files the document under the lower-cased key
GroupsAppendCaseFolded(g, feat, f) ==
    IF Lower(feat) \in DOMAIN g THEN [g EXCEPT ![Lower(feat)] = Append(@, f)]
    ELSE [k \in DOMAIN g \cup {Lower(feat)} |-> IF k = Lower(feat) THEN <<f>> ELSE g[k]]

\* the planner starting the group anew with every document: groups[feat] = [f]
GroupsAppendOverwriting(g, feat, f) ==
    [k \in DOMAIN g \cup {feat} |-> IF k = feat THEN <<f>> ELSE g[k]]

\* groups.setdefault(feat, []).append(f)
GroupsAppend(g, feat, f) ==
    IF feat \in DOMAIN g THEN [g EXCEPT ![feat] = Append(@, f)]
    ELSE [k \in DOMAIN g \cup {feat} |-> IF k = feat THEN <<f>> ELSE g[k]]

\* one iteration of the planning loop
ScanStep ==
    /\ pc = "scan" /\ idx < Len(pdfs)
    /\ LET f == pdfs[idx + 1]
           r == FeatureOf(f)
       IN IF r.raised
          THEN skipped' = skipped + 1 /\ UNCHANGED groups
          ELSE groups' = GroupsAppend(groups, r.feature, f) /\ UNCHANGED skipped
    /\ idx' = idx + 1
    /\ UNCHANGED <<pc, args, listing, pdfs, planned, resp, answered, out_dir,
                   out_files, job, queue, reports, done, exit_status, cfVars, imVars, runVars>>

\* sorted(groups.keys())
SortedKeys(g) == SortStrs(SetToSeq(DOMAIN g))

\* main sorting the filenames of the plan after sanitizing the keys
ShowPlanSortedNames ==
    /\ pc = "scan" /\ idx = Len(pdfs)
    /\ planned' = LET ks == SortedKeys(groups)
                  IN SortStrs([k \in 1..Len(ks) |-> SanitizeFeature(ks[k]) \o PdfExt])
    /\ pc' = "prompt"
    /\ UNCHANGED <<args, listing, pdfs, idx, groups, skipped, resp, answered, out_dir,
                   out_files, job, queue, reports, done, exit_status, cfVars, imVars, runVars>>

ShowPlan ==
    /\ pc = "scan" /\ idx = Len(pdfs)
    /\ planned' = LET ks == SortedKeys(groups)
                  IN [k \in 1..Len(ks) |-> SanitizeFeature(ks[k]) \o PdfExt]
    /\ pc' = "prompt"
    /\ UNCHANGED <<args, listing, pdfs, idx, groups, skipped, resp, answered, out_dir,
                   out_files, job, queue, reports, done, exit_status, cfVars, imVars, runVars>>

\* the confirmation test taking any answer that starts with s or y
ApprovedByPrefix(line) ==
    LET r == Lower(Strip(line)) IN r # <<>> /\ <<r[1]>> \in {<<"s">>, <<"y">>}

\* resp.lower() in ("s", "y") for resp = input().strip()
Approved(line) == Lower(Strip(line)) \in {<<"s">>, <<"y">>}

ReadAnswer ==
    /\ pc = "prompt"
    /\ \E line \in Answers :
         /\ resp' = Strip(line)
         /\ answered' = TRUE
         /\ IF Approved(line)
            THEN pc' = "stage2" /\ UNCHANGED exit_status
            ELSE pc' = "exit" /\ exit_status' = 0
    /\ UNCHANGED <<args, listing, pdfs, idx, groups, skipped, planned, out_dir,
                   out_files, job, queue, reports, done, cfVars, imVars, runVars>>

---------------------------------------------------------------------------
(* The run of main: stage 2, one worker_unify call per group *)

StatusOK == <<"OK">>
StatusError(msg) == <<"ERROR: ", msg>>

\* the keyword arguments of doc_out.save that rewrite the document's structure;
\* garbage = -1: save has not been called
NotSaved ==
    [garbage |-> -1, clean |-> FALSE, deflate |-> FALSE, deflate_images |-> FALSE,
     deflate_fonts |-> FALSE, use_objstms |-> 0]

\* a save that garbage-collects and cleans at every level
SaveOptionsAlwaysLight(optimize) ==
    IF optimize = "full"
    THEN [garbage |-> 4, clean |-> TRUE, deflate |-> TRUE, deflate_images |-> TRUE,
          deflate_fonts |-> TRUE, use_objstms |-> 1]
    ELSE [garbage |-> 3, clean |-> TRUE, deflate |-> TRUE, deflate_images |-> FALSE,
          deflate_fonts |-> FALSE, use_objstms |-> 1]

\* the arguments unify_group passes to doc_out.save at each level
SaveOptions(optimize) ==
    IF optimize = "none"
    THEN [garbage |-> 0, clean |-> FALSE, deflate |-> FALSE, deflate_images |-> FALSE,
          deflate_fonts |-> FALSE, use_objstms |-> 0]
    ELSE IF optimize = "light"
    THEN [garbage |-> 3, clean |-> TRUE, deflate |-> TRUE, deflate_images |-> FALSE,
          deflate_fonts |-> FALSE, use_objstms |-> 1]
    ELSE [garbage |-> 4, clean |-> TRUE, deflate |-> TRUE, deflate_images |-> TRUE,
          deflate_fonts |-> TRUE, use_objstms |-> 1]

NewJob ==
    [st |-> "pending", dest |-> <<>>, opened |-> <<>>, pages |-> <<>>,
     trace |-> <<>>, save_opts |-> NotSaved, failed |-> FALSE, err |-> "none",
     raised |-> FALSE, ret |-> <<>>, seq |-> 0, early |-> FALSE]

\* unify_group appends the sources in the reverse of the sorted order
UnifySourcesReversed(source_paths) ==
    LET s == SortStrs(source_paths)
    IN [k \in 1..Len(s) |-> s[Len(s) + 1 - k]]

\* the order in which unify_group appends the sources
UnifySources(source_paths) == SortStrs(source_paths)

\* worker_unify without its except clause
WorkerUnifyNoCatch(feat, paths, err) ==
    IF err = "none"
    THEN [raised |-> FALSE, ret |-> <<feat, Len(paths), StatusOK>>]
    ELSE [raised |-> TRUE, ret |-> <<>>]

\* what worker_unify hands back when unify_group ended with err ("none": no error)
WorkerUnify(feat, paths, err) ==
    IF err = "none"
    THEN [raised |-> FALSE, ret |-> <<feat, Len(paths), StatusOK>>]
    ELSE [raised |-> FALSE, ret |-> <<feat, Len(paths), StatusError(err)>>]

\* unify_group ends (finally: close) and worker_unify returns; seq: the place
\* of this return among the returns of the run
Returned(j, feat, err) ==
    LET w == WorkerUnify(feat, groups[feat], err)
    IN [j EXCEPT !.st = "returned", !.failed = (err # "none"), !.err = err,
                 !.raised = w.raised, !.ret = w.ret, !.trace = Append(@, "close"),
                 !.seq = Cardinality({g \in DOMAIN job : job[g].st = "returned"}) + 1]

FeatsSorted == SortedKeys(groups)
TotalGroups == Len(FeatsSorted)
DestOf(feat) == SanitizeFeature(feat) \o PdfExt

\* lines 357-363 and the choice of the mode, with the submission loop of the pool
\* main taking the serial branch for a worker count of 1 as well
BeginStage2SerialForOneWorker ==
    /\ pc = "stage2"
    /\ out_dir' = TRUE
    /\ job' = [k \in DOMAIN groups |-> NewJob]
    /\ done' = 0
    /\ IF args.serial \/ TotalGroups = 0 \/ args.jobs = 1
       THEN pc' = "serial" /\ queue' = <<>>
       ELSE pc' = "submit" /\ queue' = <<>>
    /\ UNCHANGED <<args, listing, pdfs, idx, groups, skipped, planned, resp, answered,
                   out_files, reports, exit_status, cfVars, imVars, runVars>>

BeginStage2 ==
    /\ pc = "stage2"
    /\ out_dir' = TRUE
    /\ job' = [k \in DOMAIN groups |-> NewJob]
    /\ done' = 0
    /\ IF args.serial \/ TotalGroups = 0
       THEN pc' = "serial" /\ queue' = <<>>
       ELSE pc' = "submit" /\ queue' = <<>>
    /\ UNCHANGED <<args, listing, pdfs, idx, groups, skipped, planned, resp, answered,
                   out_files, reports, exit_status, cfVars, imVars, runVars>>

\* worker_unify up to the call of save: the append loop, the image recompression,
\* makedirs and, at level full, scrub and subset_fonts.  nfail > 0: opening the
\* nfail-th source raises.
StartJob(feat) ==
    LET sources == UnifySources(groups[feat])
        j == [job[feat] EXCEPT !.dest = DestOf(feat)]
    IN \E nfail \in 0..Len(sources) :
         IF nfail = 0
         THEN /\ job' = [job EXCEPT ![feat] =
                    [j EXCEPT !.st = "merged", !.opened = sources, !.pages = sources,
                              !.trace = <<"append">>
                                  \o (IF args.jpeg_recompress = "on"
                                      THEN <<"recompress">> ELSE <<>>)
                                  \o <<"makedirs">>
                                  \o (IF args.optimize = "full"
                                      THEN <<"scrub", "subset_fonts">> ELSE <<>>)]]
              /\ out_dir' = TRUE
         ELSE /\ job' = [job EXCEPT ![feat] =
                    Returned([j EXCEPT !.opened = SubSeq(sources, 1, nfail),
                                       !.pages = SubSeq(sources, 1, nfail - 1),
                                       !.trace = <<"append">>], feat, "open")]
              /\ UNCHANGED out_dir

OthersSaving(feat) ==
    \E g \in DOMAIN job : g # feat /\ job[g].st = "saving" /\ job[g].dest = job[feat].dest

PutFile(name, f) ==
    [n \in DOMAIN out_files \cup {name} |-> IF n = name THEN f ELSE out_files[n]]

\* doc_out.save opens the destination for writing (truncating what is there),
\* or raises before it has created the file
SaveBegin ==
    /\ pc \in {"serial", "submit", "pool"}
    /\ \E feat \in DOMAIN job :
         /\ job[feat].st = "merged"
         /\ \E ok \in BOOLEAN :
              IF ok
              THEN /\ out_files' = PutFile(job[feat].dest,
                           [state |-> "partial", pages |-> <<>>, writer |-> feat,
                            mixed |-> OthersSaving(feat)])
                   /\ job' = [job EXCEPT ![feat].st = "saving",
                                         ![feat].trace = Append(@, "save"),
                                         ![feat].save_opts = SaveOptions(args.optimize)]
              ELSE /\ job' = [job EXCEPT ![feat] = Returned(@, feat, "save")]
                   /\ UNCHANGED out_files
    /\ UNCHANGED <<pc, args, listing, pdfs, idx, groups, skipped, planned, resp,
                   answered, out_dir, queue, reports, done, exit_status, cfVars,
                   imVars, runVars>>

\* doc_out.save writes the document out, or raises part-way; nothing removes the
\* file it was writing
SaveEnd ==
    /\ pc \in {"serial", "submit", "pool"}
    /\ \E feat \in DOMAIN job :
         /\ job[feat].st = "saving"
         /\ \E ok \in BOOLEAN :
              IF ok
              THEN /\ out_files' =
                        LET f == out_files[job[feat].dest]
                        IN PutFile(job[feat].dest,
                             IF f.writer = feat /\ ~f.mixed
                             THEN [state |-> "complete", pages |-> job[feat].pages,
                                   writer |-> feat, mixed |-> FALSE]
                             ELSE [f EXCEPT !.state = "mixed", !.mixed = TRUE])
                   /\ job' = [job EXCEPT ![feat] = Returned(@, feat, "none")]
              ELSE /\ job' = [job EXCEPT ![feat] = Returned(@, feat, "save")]
                   /\ UNCHANGED out_files
    /\ UNCHANGED <<pc, args, listing, pdfs, idx, groups, skipped, planned, resp,
                   answered, out_dir, queue, reports, done, exit_status, cfVars,
                   imVars, runVars>>

\* serial mode: main calls worker_unify for the next group
SerialCall ==
    /\ pc = "serial" /\ done < TotalGroups
    /\ job[FeatsSorted[done + 1]].st = "pending"
    /\ StartJob(FeatsSorted[done + 1])
    /\ UNCHANGED <<pc, args, listing, pdfs, idx, groups, skipped, planned, resp,
                   answered, out_files, queue, reports, done, exit_status, cfVars,
                   imVars, runVars>>

\* serial mode: the call is back; the returned tuple is dropped
SerialReport ==
    /\ pc = "serial" /\ done < TotalGroups
    /\ LET feat == FeatsSorted[done + 1]
       IN /\ job[feat].st = "returned"
          /\ reports' = Append(reports,
                IF job[feat].raised
                THEN [feat |-> feat, count |-> Len(groups[feat]), line |-> "WARN",
                      status |-> StatusError(job[feat].err)]
                ELSE [feat |-> feat, count |-> Len(groups[feat]), line |-> "OK",
                      status |-> StatusOK])
    /\ done' = done + 1
    /\ UNCHANGED <<pc, args, listing, pdfs, idx, groups, skipped, planned, resp,
                   answered, out_dir, out_files, job, queue, exit_status, cfVars,
                   imVars, runVars>>

Running == {g \in DOMAIN job : job[g].st \in {"merged", "saving"}}
\* a pool with one worker per group, whatever the worker count
PoolSizePerGroup == TotalGroups

PoolSize == IF args.jobs < TotalGroups THEN args.jobs ELSE TotalGroups

\* parallel mode: the calls main has submitted so far, queued or taken
Submitted == Len(queue) + Cardinality({g \in DOMAIN job : job[g].st # "pending"})

\* parallel mode: main submits the call for the next key; the workers are
\* already running the calls submitted before
Submit ==
    /\ pc = "submit" /\ Submitted < TotalGroups
    /\ queue' = Append(queue, FeatsSorted[Submitted + 1])
    /\ UNCHANGED <<pc, args, listing, pdfs, idx, groups, skipped, planned, resp,
                   answered, out_dir, out_files, job, reports, done, exit_status,
                   cfVars, imVars, runVars>>

\* parallel mode: main calls as_completed; the futures that are done by now
\* are the ones it yields first
AsCompletedCall ==
    /\ pc = "submit" /\ Submitted = TotalGroups
    /\ pc' = "pool"
    /\ job' = [g \in DOMAIN job |-> [job[g] EXCEPT !.early = (job[g].st = "returned")]]
    /\ UNCHANGED <<args, listing, pdfs, idx, groups, skipped, planned, resp, answered,
                   out_dir, out_files, queue, reports, done, exit_status, cfVars,
                   imVars, runVars>>

\* parallel mode: a free worker process takes the next submitted call
WorkerPick ==
    /\ pc \in {"submit", "pool"} /\ queue # <<>>
    /\ Cardinality(Running) < PoolSize
    /\ StartJob(Head(queue))
    /\ queue' = Tail(queue)
    /\ UNCHANGED <<pc, args, listing, pdfs, idx, groups, skipped, planned, resp,
                   answered, out_files, reports, done, exit_status, cfVars, imVars, runVars>>

\* as_completed forgetting which futures it has yielded
ReportedNone == {}

Reported == {reports[k].feat : k \in 1..Len(reports)}

Unreported == {f \in DOMAIN job : job[f].st = "returned" /\ f \notin Reported}

\* an as_completed that yields the finished futures in any order
AsCompletedAnyOrder == Unreported

\* the futures as_completed may yield next: one of those that were done when it
\* was called, in the order of a set; after them, the one that finished first
AsCompletedNext ==
    IF \E f \in Unreported : job[f].early
    THEN {f \in Unreported : job[f].early}
    ELSE {f \in Unreported : \A g \in Unreported : job[f].seq <= job[g].seq}

\* parallel mode: as_completed yields a finished future; fut.result()
ReportCompleted ==
    /\ pc = "pool"
    /\ \E feat \in AsCompletedNext :
         IF job[feat].raised
         THEN \* fut.result() re-raises: main ends with a traceback
              /\ pc' = "exit" /\ exit_status' = 1
              /\ UNCHANGED <<reports, done>>
            ELSE /\ reports' = Append(reports,
                       [feat |-> job[feat].ret[1], count |-> job[feat].ret[2],
                        line |-> IF job[feat].ret[3] # StatusOK THEN "WARN" ELSE "OK",
                        status |-> job[feat].ret[3]])
                 /\ done' = done + 1
                 /\ UNCHANGED <<pc, exit_status>>
    /\ UNCHANGED <<args, listing, pdfs, idx, groups, skipped, planned, resp,
                   answered, out_dir, out_files, job, queue, cfVars, imVars, runVars>>

\* main deriving its exit status from the groups' results
FinStatusFromResults ==
    /\ pc \in {"serial", "pool"} /\ done = TotalGroups
    /\ pc' = "exit"
    /\ exit_status' = IF \E f \in DOMAIN job : job[f].failed THEN 1 ELSE 0
    /\ UNCHANGED <<args, listing, pdfs, idx, groups, skipped, planned, resp,
                   answered, out_dir, out_files, job, queue, reports, done, cfVars,
                   imVars, runVars>>

\* the final report; main returns
Fin ==
    /\ pc \in {"serial", "pool"} /\ done = TotalGroups
    /\ pc' = "exit" /\ exit_status' = 0
    /\ UNCHANGED <<args, listing, pdfs, idx, groups, skipped, planned, resp,
                   answered, out_dir, out_files, job, queue, reports, done, cfVars,
                   imVars, runVars>>

Next ==
    \/ ParseArgs \/ ListPdfs \/ ScanStep \/ ShowPlan \/ ReadAnswer \/ BeginStage2
    \/ SerialCall \/ SerialReport \/ Submit \/ AsCompletedCall \/ WorkerPick
    \/ SaveBegin \/ SaveEnd
    \/ ReportCompleted \/ Fin

Spec == Init /\ [][Next]_vars

\* main, the worker processes and the library calls they make all go on running
InitLive ==
    InitMain(RunDirectories,
             ArgSpace({<<"filtered", "alnum", "letters">>}, BOOLEAN, 0..MaxJobs,
                      {"none"}, {"off"}, {DefaultOutDirName}))

SpecLive == InitLive /\ [][Next]_vars /\ WF_vars(Next)

\* a run that went through stage 2 is over, and the program is started again
\* on the same target directory with the same arguments.  The files of the
\* output directory are still there; they are entries of the target directory
\* when the output directory is the target directory.
RunAgain ==
    /\ pc = "exit" /\ answered /\ exit_status = 0 /\ out_dir /\ run = 1
    /\ run' = 2
    /\ first' = [pdfs |-> pdfs, groups |-> groups, planned |-> planned,
                 outputs |-> out_files]
    /\ listing' = IF args.out_dir_name = "."
                  THEN listing \cup {[name |-> n, isfile |-> TRUE] : n \in DOMAIN out_files}
                  ELSE listing
    /\ pc' = "parse_args"
    /\ pdfs' = <<>> /\ idx' = 0 /\ groups' = <<>> /\ skipped' = 0 /\ planned' = <<>>
    /\ resp' = <<>> /\ answered' = FALSE
    /\ job' = <<>> /\ queue' = <<>> /\ reports' = <<>> /\ done' = 0
    /\ exit_status' = -1
    /\ UNCHANGED <<args, out_dir, out_files, cfVars, imVars>>

\* two runs in a row, over every output directory name
InitTwice ==
    InitMain(RunDirectories,
             ArgSpace({<<"filtered", "alnum", "letters">>}, BOOLEAN, {MaxJobs},
                      {"none"}, {"off"}, OutDirNames))

NextTwice == Next \/ RunAgain

SpecTwice == InitTwice /\ [][NextTwice]_vars

\* stage 1 alone: the run up to the operator's answer
NextPlan == ParseArgs \/ ListPdfs \/ ScanStep \/ ShowPlan \/ ReadAnswer

SpecPlan == InitPlan /\ [][NextPlan]_vars

---------------------------------------------------------------------------
(* recompress_images_in_doc: one call on a drawn document *)

BytesPerKb == 1024

StreamLens == {BytesPerKb - 1, BytesPerKb, BytesPerKb + 1}

\* the objects of the xref table.  subtype "raise": xref_get_key raises on it.
\* stream: its length and whether it still is the original encoding.  n: the
\* channel count of its pixmap.
XrefObjects ==
    { [subtype |-> "/Font", stream |-> [len |-> BytesPerKb, enc |-> "orig"],
       width |-> 0, height |-> 0, n |-> 0],
      [subtype |-> "raise", stream |-> [len |-> BytesPerKb, enc |-> "orig"],
       width |-> 0, height |-> 0, n |-> 0] }
    \cup { [subtype |-> "/Image", stream |-> [len |-> l, enc |-> "orig"],
            width |-> 640, height |-> 480, n |-> c] : l \in StreamLens, c \in {3, 5} }

RECURSIVE DocsUpTo(_)
DocsUpTo(n) ==
    IF n = 0 THEN {<<>>}
    ELSE LET shorter == DocsUpTo(n - 1)
         IN shorter \cup {Append(d, o) : d \in {e \in shorter : Len(e) = n - 1},
                                          o \in XrefObjects}

InitImg ==
    /\ IdleMain /\ IdleFeature
    /\ im_doc \in DocsUpTo(MaxXref)
    /\ im_cfg \in [quality : {70}, min_kb : {0, 1}, only_if_smaller : BOOLEAN]
    /\ im_xref = 1 /\ im_replaced = 0 /\ im_log = <<>> /\ im_ret = -1

\* what the library calls of one iteration do: which of them raise, and the
\* length of the JPEG that tobytes produces
ImgEnvs ==
    [stream_ok : BOOLEAN, pixmap_ok : BOOLEAN, convert_ok : BOOLEAN,
     encode_ok : BOOLEAN, new_len : StreamLens, update_ok : BOOLEAN]

\* the replacement test with <= for <
ShouldReplaceOrEqual(only_if_smaller, new_len, orig_bytes) ==
    (~only_if_smaller) \/ (new_len <= orig_bytes)

\* line 201
ShouldReplace(only_if_smaller, new_len, orig_bytes) ==
    (~only_if_smaller) \/ (new_len < orig_bytes)

\* the library call of one iteration that raises, "none" when none does
RaisedAt(obj, cfg, env) ==
    IF obj.subtype = "raise" THEN "subtype"
    ELSE IF obj.subtype # "/Image" THEN "none"
    ELSE IF ~env.stream_ok THEN "stream"
    ELSE IF obj.stream.len < cfg.min_kb * BytesPerKb THEN "none"
    ELSE IF ~env.pixmap_ok THEN "pixmap"
    ELSE IF obj.n >= 5 /\ ~env.convert_ok THEN "convert"
    ELSE IF ~env.encode_ok THEN "encode"
    ELSE IF ShouldReplace(cfg.only_if_smaller, env.new_len, obj.stream.len)
            /\ ~env.update_ok THEN "update"
    ELSE "none"

\* the body of the loop going on with the unconverted pixmap when the colour
\* conversion raises
ImageOutcomeIgnoringConvert(obj, cfg, env) ==
    IF obj.subtype = "raise" THEN "no_subtype"
    ELSE IF obj.subtype # "/Image" THEN "not_image"
    ELSE IF ~env.stream_ok THEN "no_stream"
    ELSE IF obj.stream.len < cfg.min_kb * BytesPerKb THEN "small"
    ELSE IF ~env.pixmap_ok THEN "no_pixmap"
    ELSE IF ~env.encode_ok THEN "no_encode"
    ELSE IF ~ShouldReplace(cfg.only_if_smaller, env.new_len, obj.stream.len) THEN "kept"
    ELSE IF ~env.update_ok THEN "update_failed"
    ELSE "replaced"

\* the body of the loop skipping an image whose stream is exactly min_bytes long
ImageOutcomeSkippingAtThreshold(obj, cfg, env) ==
    IF obj.subtype = "raise" THEN "no_subtype"
    ELSE IF obj.subtype # "/Image" THEN "not_image"
    ELSE IF ~env.stream_ok THEN "no_stream"
    ELSE IF obj.stream.len <= cfg.min_kb * BytesPerKb THEN "small"
    ELSE IF ~env.pixmap_ok THEN "no_pixmap"
    ELSE IF obj.n >= 5 /\ ~env.convert_ok THEN "no_convert"
    ELSE IF ~env.encode_ok THEN "no_encode"
    ELSE IF ~ShouldReplace(cfg.only_if_smaller, env.new_len, obj.stream.len) THEN "kept"
    ELSE IF ~env.update_ok THEN "update_failed"
    ELSE "replaced"

\* how the body of the loop ends for one xref
ImageOutcome(obj, cfg, env) ==
    IF obj.subtype = "raise" THEN "no_subtype"
    ELSE IF obj.subtype # "/Image" THEN "not_image"
    ELSE IF ~env.stream_ok THEN "no_stream"
    ELSE IF obj.stream.len < cfg.min_kb * BytesPerKb THEN "small"
    ELSE IF ~env.pixmap_ok THEN "no_pixmap"
    ELSE IF obj.n >= 5 /\ ~env.convert_ok THEN "no_convert"
    ELSE IF ~env.encode_ok THEN "no_encode"
    ELSE IF ~ShouldReplace(cfg.only_if_smaller, env.new_len, obj.stream.len) THEN "kept"
    ELSE IF ~env.update_ok THEN "update_failed"
    ELSE "replaced"

\* the outcomes in which tobytes has returned the re-encoded stream
Reencoded == {"kept", "update_failed", "replaced"}

\* one iteration of the loop over the xrefs
ImgStep ==
    /\ im_ret = -1 /\ im_xref <= Len(im_doc)
    /\ \E env \in ImgEnvs :
         LET obj == im_doc[im_xref]
             outcome == ImageOutcome(obj, im_cfg, env)
         IN /\ im_log' = Append(im_log,
                   [outcome |-> outcome,
                    raised |-> RaisedAt(obj, im_cfg, env),
                    new_len |-> IF outcome \in Reencoded THEN env.new_len ELSE -1])
            /\ IF outcome = "replaced"
               THEN /\ im_doc' = [im_doc EXCEPT ![im_xref].stream =
                                     [len |-> env.new_len, enc |-> "jpeg"]]
                    /\ im_replaced' = im_replaced + 1
               ELSE UNCHANGED <<im_doc, im_replaced>>
    /\ im_xref' = im_xref + 1
    /\ UNCHANGED <<im_cfg, im_ret, mainVars, cfVars>>

ImgReturn ==
    /\ im_ret = -1 /\ im_xref = Len(im_doc) + 1
    /\ im_ret' = im_replaced
    /\ UNCHANGED <<im_doc, im_cfg, im_xref, im_replaced, im_log, mainVars, cfVars>>

NextImg == ImgStep \/ ImgReturn

SpecImg == InitImg /\ [][NextImg]_vars

---------------------------------------------------------------------------
(* Properties of the run of main *)

Affirmative == {<<"s">>, <<"y">>}
NothingWritten == ~out_dir /\ DOMAIN out_files = {}

\* C1: no directory is created and no file is written before the operator's
\* answer has been read, and an answer that, stripped and lower-cased, is not
\* "s" or "y" ends the run with exit status 0, nothing created, nothing written.
C1_NoEffectWithoutConfirmation ==
    /\ ~answered => NothingWritten
    /\ (answered /\ Lower(resp) \notin Affirmative)
          => (pc = "exit" /\ exit_status = 0 /\ NothingWritten)

\* a plan with at least one output was shown and the operator declined it
C1_Witness_Declined ==
    /\ answered /\ Lower(resp) \notin Affirmative /\ resp # <<>>
    /\ planned # <<>> /\ pc = "exit"

\* C2: in serial and in parallel mode, a group is reported OK only if its
\* unification completed without error; a group whose unification raised is
\* reported as a failure that carries the error message.
C2_ReportMatchesOutcome ==
    \A k \in 1..Len(reports) :
        LET r == reports[k]
        IN IF job[r.feat].failed
           THEN r.line = "WARN" /\ r.status = StatusError(job[r.feat].err)
           ELSE r.line = "OK"

\* stage 2 is not stuck: a job can take its next step, or main can start, pick or
\* report one, or print the final report
Stage2CanStep ==
    \/ done = TotalGroups
    \/ \E f \in DOMAIN job : job[f].st \in {"merged", "saving"}
    \/ pc = "serial" /\ job[FeatsSorted[done + 1]].st \in {"pending", "returned"}
    \/ pc = "pool" /\ \E f \in DOMAIN job : job[f].st = "returned" /\ f \notin Reported
    \/ pc = "submit"
    \/ pc = "pool" /\ queue # <<>> /\ Cardinality(Running) < PoolSize

\* C3: an exception of one group's unification becomes the result
\* (key, source count, "ERROR: <message>") of worker_unify; it does not leave
\* worker_unify, it does not end main, the other jobs can always go on, and the
\* run ends only after every group's job has returned and been reported.
C3_FailureIsContained ==
    /\ \A f \in DOMAIN job :
          (job[f].st = "returned" /\ job[f].failed)
             => /\ ~job[f].raised
                /\ job[f].ret = <<f, Len(groups[f]), StatusError(job[f].err)>>
    /\ (pc = "exit" /\ out_dir)
          => /\ exit_status = 0
             /\ \A f \in DOMAIN groups : job[f].st = "returned" /\ f \in Reported
    /\ pc \in {"serial", "submit", "pool"} => Stage2CanStep

\* a parallel run has ended in which one group failed and another one succeeded
C3_Witness_FailedBesideSucceeded ==
    /\ pc = "exit" /\ ~args.serial
    /\ \E f, g \in DOMAIN job :
          /\ job[f].failed /\ ~job[g].failed
          /\ job[g].st = "returned" /\ {f, g} \subseteq Reported

\* C4: two distinct feature groups of one run write to different destination
\* paths.
C4_DisjointDestinations ==
    \A f, g \in DOMAIN job :
        (f # g /\ job[f].st # "pending" /\ job[g].st # "pending")
           => job[f].dest # job[g].dest

\* C5: a group whose unification failed at any step is reported as failed, and
\* once its job has ended no partial output of it is left at its destination.
C5_FailedGroupLeavesNothing ==
    \A f \in DOMAIN job :
        (job[f].st = "returned" /\ job[f].failed)
           => /\ \A k \in 1..Len(reports) :
                    reports[k].feat = f => reports[k].line = "WARN"
              /\ ~( /\ job[f].dest \in DOMAIN out_files
                    /\ out_files[job[f].dest].writer = f
                    /\ out_files[job[f].dest].state = "partial" )

\* the indexing basis of a document
Basis(path) ==
    IF args.index_on = "original" THEN Stem(path)
    ELSE ApplyFilter(Stem(path), args.index_filter)

\* C6: a document whose indexing basis is shorter than p2 makes compute_feature
\* raise; the planner adds exactly one to the skip counter, creates no group,
\* changes no group and goes on with the next document; such a document is
\* never a member of a group.
C6_ShortBasisIsSkipped ==
    /\ [](\A k \in DOMAIN groups : \A m \in Range(groups[k]) :
              Len(Basis(m)) >= args.p2)
    /\ [][ (pc = "scan" /\ idx < Len(pdfs) /\ Len(Basis(pdfs[idx + 1])) < args.p2)
              => /\ skipped' = skipped + 1
                 /\ groups' = groups
                 /\ idx' = idx + 1 /\ pc' = "scan" ]_vars

\* the scenario of the spec: 7.pdf with p1 = 1, p2 = 2 has been planned
C6_Witness_SevenSkipped ==
    /\ listing = Entries({<<"7">> \o PdfExt})
    /\ args.p1 = 1 /\ args.p2 = 2 /\ args.index_on = "original"
    /\ pc = "prompt" /\ skipped = 1 /\ DOMAIN groups = {}

\* C8: for a group of two or more sources, the pages of the merged document and
\* of the written output are the group's sources in ascending order of their
\* paths, in every order of discovery and every schedule of the workers.
Ascending(s) == \A k \in 1..(Len(s) - 1) : StrLess(s[k], s[k + 1])

C8_PagesInPathOrder ==
    /\ \A f \in DOMAIN job :
          (job[f].st \in {"merged", "saving", "returned"} /\ ~job[f].failed
             /\ Len(groups[f]) >= 2)
             => /\ Ascending(job[f].pages)
                /\ Len(job[f].pages) = Len(groups[f])
                /\ Range(job[f].pages) = Range(groups[f])
    /\ \A n \in DOMAIN out_files :
          out_files[n].state = "complete"
             => /\ Ascending(out_files[n].pages)
                /\ Range(out_files[n].pages) = Range(groups[out_files[n].writer])

\* a pool worker has written the output of a group of two sources
C8_Witness_TwoSourceOutput ==
    /\ ~args.serial
    /\ \E n \in DOMAIN out_files :
          out_files[n].state = "complete" /\ Len(out_files[n].pages) >= 2

PlanningDone == pc \in {"prompt", "stage2", "serial", "submit", "pool"} \/ answered

NotSkipped == {f \in Range(pdfs) : Len(Basis(f)) >= args.p2}

\* C9: after planning, two documents that were not skipped are in the same group
\* exactly when their feature keys are equal as strings, case included, and a
\* group is stored under the key of its members.
C9_GroupedByExactKey ==
    PlanningDone =>
        /\ \A a, b \in NotSkipped :
              (\E k \in DOMAIN groups : {a, b} \subseteq Range(groups[k]))
                 <=> (FeatureOf(a).feature = FeatureOf(b).feature)
        /\ \A k \in DOMAIN groups : \A m \in Range(groups[k]) :
              FeatureOf(m).feature = k

\* the scenario of the spec: A1, A2, B1 with p1 = p2 = 1, basis original, emit
\* scope letters
C9_Witness_Example ==
    /\ pc = "prompt"
    /\ args.p1 = 1 /\ args.p2 = 1 /\ args.index_on = "original"
    /\ args.emit_scope = "letters"
    /\ DOMAIN groups = {<<"A">>, <<"B">>}
    /\ groups[<<"A">>] = << <<"A", "1">> \o PdfExt, <<"A", "2">> \o PdfExt >>
    /\ groups[<<"B">>] = << <<"B", "1">> \o PdfExt >>

---------------------------------------------------------------------------
(* Properties of compute_feature *)

CfBasis ==
    IF cf_in.index_on = "original" THEN cf_in.name_stem
    ELSE ApplyFilter(cf_in.name_stem, cf_in.index_filter)

\* C7: when the basis has at least p2 characters, compute_feature returns the
\* emit-scope filter applied to the characters p1..p2 (1-based, inclusive) of the
\* basis, or those characters unfiltered when the filter removes them all; the
\* key is never empty.
C7_FeatureIsFilteredSlice ==
    (cf_out.returned /\ Len(CfBasis) >= cf_in.p2)
       => LET slice == [k \in 1..(cf_in.p2 - cf_in.p1 + 1) |-> CfBasis[cf_in.p1 + k - 1]]
              emitted == ApplyFilter(slice, cf_in.emit_scope)
          IN /\ ~cf_out.raised
             /\ cf_out.feature = (IF emitted = <<>> THEN slice ELSE emitted)
             /\ cf_out.feature # <<>>

\* a call on a filtered basis whose slice of two characters the emit-scope
\* filter empties
C7_Witness_Fallback ==
    /\ cf_out.returned /\ ~cf_out.raised
    /\ cf_in.index_on = "filtered" /\ cf_in.p1 < cf_in.p2
    /\ ApplyFilter(SubSeq(CfBasis, cf_in.p1, cf_in.p2), cf_in.emit_scope) = <<>>
    /\ Len(cf_out.feature) = 2

---------------------------------------------------------------------------
(* Properties of recompress_images_in_doc *)

\* what one step of the loop may do to the objects of the document: the declared
\* width and height stay, and with only_if_smaller a stream is replaced only by
\* a strictly shorter one
ImgStepKeepsPolicy ==
    \A x \in 1..Len(im_doc) :
        /\ im_doc'[x].width = im_doc[x].width
        /\ im_doc'[x].height = im_doc[x].height
        /\ (im_doc'[x].stream # im_doc[x].stream /\ im_cfg.only_if_smaller)
              => im_doc'[x].stream.len < im_doc[x].stream.len

\* the image visited by this step was re-encoded with only_if_smaller disabled
ImgStepReencodedUnconditional ==
    /\ ~im_cfg.only_if_smaller
    /\ Len(im_log') = Len(im_log) + 1
    /\ im_log'[Len(im_log')].outcome \in Reencoded

\* C10 as stated: the policy of ImgStepKeepsPolicy, and with only_if_smaller
\* disabled every successfully re-encoded image at or above the threshold is
\* replaced.
C10_Original_AlwaysReplaced ==
    [][ /\ ImgStepKeepsPolicy
        /\ ImgStepReencodedUnconditional
              => /\ im_log'[Len(im_log')].outcome = "replaced"
                 /\ im_doc'[im_xref].stream.enc = "jpeg" ]_vars

\* C10 amended: the policy of ImgStepKeepsPolicy, and with only_if_smaller
\* disabled every successfully re-encoded image at or above the threshold is
\* replaced unless update_stream itself raises, which leaves it as it was.
C10_ReplacementPolicy ==
    [][ /\ ImgStepKeepsPolicy
        /\ ImgStepReencodedUnconditional
              => \/ /\ im_log'[Len(im_log')].outcome = "replaced"
                    /\ im_doc'[im_xref].stream.enc = "jpeg"
                 \/ /\ im_log'[Len(im_log')].outcome = "update_failed"
                    /\ im_doc'[im_xref] = im_doc[im_xref] ]_vars

\* with only_if_smaller, one image was replaced by a shorter stream and another,
\* re-encoded to the length it had, was kept
C10_Witness_ReplacedAndKept ==
    /\ im_cfg.only_if_smaller /\ Len(im_log) = 2 /\ Len(im_doc) = 2
    /\ \E x, y \in 1..2 :
          /\ im_log[x].outcome = "replaced" /\ im_doc[x].stream.enc = "jpeg"
          /\ im_log[y].outcome = "kept" /\ im_log[y].new_len = im_doc[y].stream.len

\* C11: a failure on one image, at whichever call of the iteration raises, leaves
\* the document as it was, is not counted as a replacement, and the loop goes on
\* with the next xref: the function returns only after it has visited every xref.
C11_ImageFailureIsSwallowed ==
    /\ [](im_ret # -1 => Len(im_log) = Len(im_doc) /\ im_ret = im_replaced)
    /\ [][ (Len(im_log') = Len(im_log) + 1 /\ im_log'[Len(im_log')].raised # "none")
              => /\ im_doc' = im_doc
                 /\ im_replaced' = im_replaced
                 /\ im_xref' = im_xref + 1 /\ im_ret' = -1 ]_vars

\* the call has returned 1: the colour conversion of the first image raised and
\* the second image was replaced
C11_Witness_FailureThenReplaced ==
    /\ Len(im_log) = 2 /\ im_ret = 1
    /\ im_log[1].raised = "convert" /\ im_doc[1].stream.enc = "orig"
    /\ im_log[2].outcome = "replaced"

\* C12: once the plan is confirmed, a group's job is started at most once and a
\* returned job never runs again; the progress counter is the number of report
\* lines, no group has two of them, and when main has printed the final report
\* every group has returned and has exactly one line, so the counter is the
\* number of groups.
C12_OneJobOneReportPerGroup ==
    /\ [](/\ done = Len(reports)
          /\ \A i, k \in 1..Len(reports) : reports[i].feat = reports[k].feat => i = k
          /\ Reported \subseteq {f \in DOMAIN job : job[f].st = "returned"}
          /\ (pc = "exit" /\ out_dir)
                => /\ Reported = DOMAIN groups
                   /\ done = Cardinality(DOMAIN groups)
                   /\ \A f \in DOMAIN groups : job[f].st = "returned")
    /\ [][\A f \in DOMAIN job :
             /\ f \in DOMAIN job'
             /\ job[f].st # "pending" => job'[f].st # "pending"
             /\ job[f].st = "returned"
                   => [job'[f] EXCEPT !.early = job[f].early] = job[f]]_job

\* a parallel run over two groups has ended with two report lines
C12_Witness_TwoGroupsReported ==
    /\ pc = "exit" /\ out_dir /\ ~args.serial
    /\ Cardinality(DOMAIN groups) = 2 /\ Len(reports) = 2 /\ done = 2

\* C13: from the confirmation on, the run goes on to the final report and ends
\* with exit status 0; until then no status is set, however many of the groups'
\* jobs have failed.
C13_ConfirmedRunEndsWithSuccess ==
    /\ (pc = "stage2") ~> (pc = "exit" /\ exit_status = 0 /\ done = TotalGroups)
    /\ [](out_dir => exit_status = (IF pc = "exit" THEN 0 ELSE -1))

\* a run over two groups has ended with exit status 0 and both groups failed
C13_Witness_AllGroupsFailed ==
    /\ pc = "exit" /\ exit_status = 0 /\ Cardinality(DOMAIN job) = 2
    /\ \A f \in DOMAIN job : job[f].failed

\* a regular file of the target directory whose name ends in .pdf, in any case
HasPdfFile == \E e \in listing : e.isfile /\ EndsWith(Lower(e.name), PdfExt)

StructuralPreconditionFails ==
    \/ args.p1 <= 0 \/ args.p2 <= 0 \/ args.p2 < args.p1
    \/ ~args.target_isdir
    \/ ~HasPdfFile

\* C14: when p1 or p2 is not positive, p2 < p1, the target is not a directory
\* or the target holds no .pdf file, the run never gets to planning or to the
\* prompt and creates nothing: the argument checks end it before the directory
\* is listed, the empty listing ends it right after, both with exit status 1.
C14_PreconditionFailureAborts ==
    StructuralPreconditionFails
       => /\ pc \in {"parse_args", "list", "exit"}
          /\ pc = "list" => (HasPdfFile = FALSE /\ pdfs = <<>>)
          /\ pc = "exit" => exit_status = 1
          /\ idx = 0 /\ groups = <<>> /\ skipped = 0 /\ planned = <<>>
          /\ ~answered /\ NothingWritten

\* the run has ended with status 1 on a target that is no directory, with
\* positions that were in order
C14_Witness_NotADirectory ==
    /\ pc = "exit" /\ exit_status = 1 /\ ~args.target_isdir
    /\ 0 < args.p1 /\ args.p1 <= args.p2

\* the run has ended with status 1 on a directory that holds entries, none of
\* them a .pdf file
C14_Witness_NoPdfFile ==
    /\ pc = "exit" /\ exit_status = 1 /\ ArgsValid(args)
    /\ listing # {} /\ ~HasPdfFile

\* the keys whose job has been started are the first ones of the sorted keys
StartedInKeyOrder ==
    \A i, k \in 1..TotalGroups :
        (i < k /\ job[FeatsSorted[k]].st # "pending") => job[FeatsSorted[i]].st # "pending"

\* C15 as stated: the serial branch is taken exactly when the worker count is 1
\* or serial mode is forced, the worker pool otherwise.
C15_Original_SerialWhenOneWorker ==
    pc \in {"serial", "submit", "pool"}
       => (pc = "serial" <=> (args.serial \/ args.jobs = 1))

\* C15, amended: the serial branch (no pool, one job at a time, in sorted-key
\* order, the next job starting only after the previous one was reported) is
\* taken exactly when serial mode is forced or there is no group; otherwise the
\* groups go to a worker pool, also when the worker count is 1, and a pool of one
\* worker runs one job at a time in sorted-key order.
C15_SerialOnlyWhenForced ==
    pc \in {"serial", "submit", "pool"}
       => /\ pc = "serial" <=> (args.serial \/ TotalGroups = 0)
          /\ pc = "serial"
                => /\ queue = <<>> /\ Cardinality(Running) <= 1
                   /\ \A k \in 1..TotalGroups :
                         job[FeatsSorted[k]].st # "pending" => k <= done + 1
          /\ (pc \in {"submit", "pool"} /\ PoolSize = 1) => Cardinality(Running) <= 1
          /\ StartedInKeyOrder

\* a worker count of 1 without forced serial mode: the pool has run the first
\* of two groups and the second is still queued
C15_Witness_PoolOfOne ==
    /\ pc = "pool" /\ args.jobs = 1 /\ ~args.serial
    /\ Len(queue) = 1 /\ \E f \in DOMAIN job : job[f].st = "returned"

\* C16: parse_args raises a worker count below 1 to 1 and leaves any other
\* count alone; in parallel mode the jobs between their start and their return
\* are never more than that count, and never more than there are groups.
C16_PoolBound ==
    /\ [][(pc = "parse_args" /\ pc' = "list")
             => args'.jobs = (IF args.jobs < 1 THEN 1 ELSE args.jobs)]_vars
    /\ [](pc \in {"submit", "pool"}
            => /\ args.jobs >= 1
               /\ Cardinality(Running) <= args.jobs
               /\ Cardinality(Running) <= Cardinality(DOMAIN groups))

\* a worker count of 1 and two groups: one job is running, the other one waits
C16_Witness_OneRunningOneQueued ==
    /\ pc = "pool" /\ args.jobs = 1 /\ Cardinality(DOMAIN groups) = 2
    /\ Cardinality(Running) = 1 /\ Len(queue) = 1

\* C17 as stated: the planned filenames are in ascending order, one per group,
\* and the skip count is the number of documents whose basis was too short.
C17_Original_PlanAscending ==
    PlanningDone
       => /\ \A k \in 1..(Len(planned) - 1) : ~StrLess(planned[k + 1], planned[k])
          /\ Len(planned) = Cardinality(DOMAIN groups)
          /\ skipped = Cardinality({k \in 1..Len(pdfs) : Len(Basis(pdfs[k])) < args.p2})

\* C17, amended: the plan has one filename per group, the k-th being the
\* sanitized k-th smallest key followed by .pdf, so the filenames are in the
\* order of the keys, not of the filenames; the skip count is the number of
\* documents whose basis was too short.
C17_PlanFollowsSortedKeys ==
    PlanningDone
       => /\ Len(planned) = Cardinality(DOMAIN groups)
          /\ \A k \in 1..Len(planned) :
                \E key \in DOMAIN groups :
                   /\ Cardinality({g \in DOMAIN groups : StrLess(g, key)}) = k - 1
                   /\ planned[k] = SanitizeFeature(key) \o PdfExt
          /\ skipped = Cardinality({k \in 1..Len(pdfs) : Len(Basis(pdfs[k])) < args.p2})

\* the plan for the keys "." and "7" is shown: _.pdf comes before 7.pdf
C17_Witness_NamesOutOfOrder ==
    /\ pc = "prompt" /\ DOMAIN groups = {<<".">>, <<"7">>}
    /\ planned = << <<"_">> \o PdfExt, <<"7">> \o PdfExt >>

\* what sanitize_feature keeps: alphanumerics, '-' and '_'
SafeChar(c) == IsAlnum(c) \/ c = "-" \/ c = "_"

\* C18: for a non-empty key the result has the key's length, a character that
\* is alphanumeric, '-' or '_' is where it was, any other one has become '_',
\* so the result holds only alphanumerics, '-' and '_'; for the empty key the
\* result is "feature"; sanitizing the result again gives the result.
C18_SanitizeFeature ==
    cf_out.calls >= 1
       => /\ IF cf_in.name = <<>>
             THEN cf_out.first = <<"f", "e", "a", "t", "u", "r", "e">>
             ELSE /\ Len(cf_out.first) = Len(cf_in.name)
                  /\ \A k \in 1..Len(cf_in.name) :
                        cf_out.first[k] = (IF SafeChar(cf_in.name[k])
                                           THEN cf_in.name[k] ELSE "_")
          /\ \A k \in 1..Len(cf_out.first) : SafeChar(cf_out.first[k])
          /\ cf_out.calls = 2 => cf_out.out = cf_out.first

\* "A. " has become "A__", and sanitizing that again has given "A__"
C18_Witness_DotAndBlank ==
    /\ cf_in.name = <<"A", ".", " ">> /\ cf_out.calls = 2
    /\ cf_out.out = <<"A", "_", "_">>

\* the empty key has become "feature", twice
C18_Witness_EmptyKey ==
    /\ cf_in.name = <<>> /\ cf_out.calls = 2 /\ Len(cf_out.out) = 7

\* both runs went through stage 2: the second one has printed its final report
BothRunsDone == run = 2 /\ pc = "exit" /\ answered /\ Lower(resp) \in Affirmative

\* C19: the second of two confirmed runs on the same target directory with the
\* same arguments reads the same sources as the first, builds the same groups
\* and the same plan, and an output both runs wrote in full has the same pages
\* in the same order.
C19_SecondRunRepeatsFirst ==
    /\ (run = 2 /\ pc \notin {"parse_args", "list"}) => pdfs = first.pdfs
    /\ BothRunsDone
          => /\ groups = first.groups
             /\ planned = first.planned
             /\ \A n \in DOMAIN out_files \cap DOMAIN first.outputs :
                   (out_files[n].state = "complete" /\ first.outputs[n].state = "complete")
                      => out_files[n].pages = first.outputs[n].pages

\* with an output directory that is a subdirectory of the target, the second
\* run does repeat the first
C19_HoldsForSubdirectory ==
    args.out_dir_name = DefaultOutDirName => C19_SecondRunRepeatsFirst

\* the second run has listed an output of the first run among its sources
C19_Witness_OutputPickedUp ==
    /\ run = 2 /\ pc = "scan" /\ args.out_dir_name = "."
    /\ \E n \in DOMAIN first.outputs : n \in Range(pdfs) /\ n \notin Range(first.pdfs)

\* C20: when opening a source of a group has raised, the job has still opened
\* every source of the group, and the line reported for the group is a failure.
C20_EverySourceOpened ==
    /\ \A f \in DOMAIN job :
          (job[f].st = "returned" /\ job[f].err = "open")
             => Range(job[f].opened) = Range(groups[f])
    /\ \A k \in 1..Len(reports) :
          job[reports[k].feat].err = "open" => reports[k].line = "WARN"

\* a pool worker's job on a group of two sources has returned an error after
\* it had opened the first source only
C20_Witness_StoppedAtFirst ==
    /\ pc = "pool"
    /\ \E f \in DOMAIN job :
          /\ job[f].st = "returned" /\ job[f].err = "open"
          /\ Len(groups[f]) = 2 /\ Len(job[f].opened) = 1

\* the place of a step in unify_group
StepRank(step) ==
    CASE step = "append" -> 1 [] step = "recompress" -> 2 [] step = "makedirs" -> 3
      [] step = "scrub" -> 4 [] step = "subset_fonts" -> 5 [] step = "save" -> 6
      [] step = "close" -> 7

\* C21: the steps a job has taken are in the order append, recompress, makedirs,
\* scrub, subset_fonts, save, each at most once; a job that got past the append
\* loop recompressed exactly when the switch is on; a job that has written did
\* so after makedirs and, exactly at level full, after scrub and subset_fonts;
\* at level none the write rewrites nothing; a job that succeeded wrote once.
C21_StepsInOrder ==
    \A f \in DOMAIN job :
       LET t == job[f].trace
           did(x) == \E k \in 1..Len(t) : t[k] = x
       IN /\ \A i, k \in 1..Len(t) : i < k => StepRank(t[i]) < StepRank(t[k])
          /\ t # <<>> => t[1] = "append"
          /\ did("makedirs") => (did("recompress") <=> args.jpeg_recompress = "on")
          /\ did("recompress") => did("makedirs")
          /\ did("save")
                => /\ did("makedirs")
                   /\ did("scrub") <=> args.optimize = "full"
                   /\ did("subset_fonts") <=> args.optimize = "full"
                   /\ job[f].save_opts.garbage >= 0
                   /\ args.optimize = "none"
                         => /\ job[f].save_opts.garbage = 0
                            /\ ~job[f].save_opts.clean /\ ~job[f].save_opts.deflate
          /\ ~did("save") => job[f].save_opts = NotSaved
          /\ (job[f].st = "returned" /\ ~job[f].failed) => did("save")

\* a job at level full with recompression on has succeeded: six steps and close
C21_Witness_FullJobDone ==
    /\ args.optimize = "full" /\ args.jpeg_recompress = "on"
    /\ \E f \in DOMAIN job :
          /\ job[f].st = "returned" /\ ~job[f].failed
          /\ job[f].trace = <<"append", "recompress", "makedirs", "scrub",
                              "subset_fonts", "save", "close">>

\* the streams that are no longer the original ones
ReplacedStreams == {x \in 1..Len(im_doc) : im_doc[x].stream.enc = "jpeg"}

\* C22: the iteration on an image whose stream is shorter than min_kb * 1024
\* bytes changes nothing in the document and counts nothing; an image whose
\* stream is min_kb * 1024 bytes long or longer is not skipped as too small;
\* the counter is at every moment the number of replaced streams, and that is
\* the number returned.
C22_ThresholdAndCount ==
    /\ [](/\ im_replaced = Cardinality(ReplacedStreams)
          /\ im_ret # -1 => im_ret = Cardinality(ReplacedStreams))
    /\ [][ (Len(im_log') = Len(im_log) + 1 /\ im_doc[im_xref].subtype = "/Image")
              => IF im_doc[im_xref].stream.len < im_cfg.min_kb * 1024
                 THEN im_doc' = im_doc /\ im_replaced' = im_replaced
                 ELSE im_log'[Len(im_log')].outcome # "small" ]_vars

\* threshold 1024: a stream of 1023 bytes was skipped, the stream after it,
\* not below the threshold, was re-encoded and replaced, and the call has
\* returned 1
C22_Witness_BelowAndAtThreshold ==
    /\ im_cfg.min_kb = 1 /\ ~im_cfg.only_if_smaller /\ im_ret = 1 /\ Len(im_log) = 2
    /\ im_log[1].outcome = "small" /\ im_doc[1].stream = [len |-> 1023, enc |-> "orig"]
    /\ im_log[2].outcome = "replaced" /\ im_log[2].new_len = 1025

\* the keys of the report lines, in the order of the lines
ReportedKeys == [k \in 1..Len(reports) |-> reports[k].feat]

\* C23 as stated: in parallel mode the lines are in the order in which the jobs
\* returned; in serial mode they are in sorted-key order.
C23_Original_CompletionOrder ==
    /\ pc = "pool"
          => \A i, k \in 1..Len(reports) :
                i < k => job[reports[i].feat].seq < job[reports[k].feat].seq
    /\ pc = "serial" => ReportedKeys = SubSeq(FeatsSorted, 1, Len(reports))

\* C23, amended: in parallel mode the jobs that had returned when main began to
\* wait for results are reported first, in no particular order, and the others
\* after them in the order in which they returned; in serial mode the lines are
\* in sorted-key order.
C23_ReportOrder ==
    /\ pc = "pool"
          => \A i, k \in 1..Len(reports) :
                i < k => \/ job[reports[i].feat].early
                         \/ /\ ~job[reports[k].feat].early
                            /\ job[reports[i].feat].seq < job[reports[k].feat].seq
    /\ pc = "serial" => ReportedKeys = SubSeq(FeatsSorted, 1, Len(reports))

\* parallel mode, two groups, both returned after main began to wait: the second
\* key returned first and is reported first
C23_Witness_NotSubmissionOrder ==
    /\ pc = "pool" /\ Len(reports) = 2 /\ TotalGroups = 2
    /\ \A f \in DOMAIN job : ~job[f].early
    /\ ReportedKeys[1] = FeatsSorted[2]
    /\ job[FeatsSorted[2]].seq = 1

\* parallel mode: both jobs had returned before main began to wait, and the one
\* that returned second is reported first
C23_Witness_EarlyOutOfOrder ==
    /\ pc = "pool" /\ Len(reports) = 2
    /\ job[reports[1].feat].early /\ job[reports[1].feat].seq = 2

\* the places of the groups: (key, position in the group's list)
GroupSlots == UNION {{<<k, i>> : i \in 1..Len(groups[k])} : k \in DOMAIN groups}

\* C24: while and after the planning loop, the documents looked at so far are
\* each in exactly one place of one group, or skipped and in none: the places
\* plus the skip count are the number of documents looked at, no listed document
\* is listed twice, no group is empty, and after the loop every discovered
\* document has been looked at.
C24_GroupsPartitionDocuments ==
    (pc = "scan" \/ PlanningDone)
       => /\ Cardinality(GroupSlots) + skipped = idx
          /\ PlanningDone => idx = Len(pdfs)
          /\ \A i, k \in 1..Len(pdfs) : pdfs[i] = pdfs[k] => i = k
          /\ \A k \in DOMAIN groups : groups[k] # <<>>
          /\ \A n \in 1..Len(pdfs) :
                LET places == {sl \in GroupSlots : groups[sl[1]][sl[2]] = pdfs[n]}
                IN Cardinality(places) =
                      (IF n <= idx /\ Len(Basis(pdfs[n])) >= args.p2 THEN 1 ELSE 0)

\* two documents planned: one is the only member of its group, the other one
\* was skipped
C24_Witness_OneGroupedOneSkipped ==
    /\ pc = "prompt" /\ Len(pdfs) = 2 /\ skipped = 1
    /\ Cardinality(GroupSlots) = 1

\* C25: when main has printed the final report, the number it announces, which
\* is total_groups, is the number of files there are in the output directory,
\* whatever state they are in.
C25_AnnouncedCountIsFileCount ==
    (run = 1 /\ pc = "exit" /\ answered /\ Lower(resp) \in Affirmative)
       => TotalGroups = Cardinality(DOMAIN out_files)

\* the final report of a run over two groups is out; one group failed on
\* opening a source, and the output directory holds one file
C25_Witness_TwoAnnouncedOneWritten ==
    /\ pc = "exit" /\ exit_status = 0 /\ TotalGroups = 2
    /\ Cardinality(DOMAIN out_files) = 1
    /\ \E f \in DOMAIN job : job[f].err = "open"
    /\ \E n \in DOMAIN out_files : out_files[n].state = "complete"

====
